---- MODULE Spec2Model ----
(***************************************************************************)
(* fuzzy-tables: the field-definition model shared by the table and the    *)
(* side forms.  A field list is a list of {field, header, z}: a dotted     *)
(* path and a Zod validator.  zodFromFields composes the list into one     *)
(* nested object schema; categorizeNestedField and getEnumOptions read a   *)
(* field's UI category and its options back out of a schema; buildTable    *)
(* derives the category of each column's default renderer.                 *)
(*                                                                         *)
(* Strings that the code takes apart (field paths) are sequences of        *)
(* one-character strings, so that split(".") is computed and not assumed.  *)
(* JavaScript objects (plain objects, Zod validator instances, values) are *)
(* records with the same fields for every kind, with their properties in   *)
(* insertion order.                                                        *)
(***************************************************************************)
EXTENDS Integers, Sequences, FiniteSets, TLC

VARIABLES
    fields,        \* the `fields` prop / argument: a sequence of [field, z]
    zSchema,       \* SideForm: const zSchema = zodFromFields(fields)
    fieldTypes,    \* SideForm: the `type` prop handed to each SidebarField
    fieldOptions,  \* SideForm: the `options` prop handed to each SidebarField
    tableTypes,    \* buildTable: the type captured by each default renderer
    qPath,         \* the path of the last direct categorizeNestedField /
    qType,         \*   getEnumOptions call on zSchema, and what they returned
    qOptions,
    formData,      \* SideForm: the formData state
    parsed,        \* the last zSchema.safeParse(formData): its input and result
    step,          \* the handler that ran last
    props,         \* the form component and whether it got a getErrorMessage
    isOpen,        \* SideForm: the isOpen state
    globalError,   \* SideForm: the globalError state
    validationErrors, \* SideForm: the validationErrors state
    submitting,    \* SideForm: the submitting state
    pending,       \* the onSubmit call that has not settled yet
    editRecord,    \* UpdateForm: the editRecord state
    rowSelection,  \* table store: rowSelection
    sortingFields, \* table store: sortingFields
    listeners,     \* table store: listeners
    mounted,       \* the components that called useHandler and are mounted
    invoked,       \* the listener calls made by the last handler click
    history,       \* per row: how its selection was changed so far
    tableData,     \* the `data` prop of the table and of useSelected
    selectValue,   \* MultipleSelect: the `value` prop
    emitted,       \* MultipleSelect: the onChange calls of the last click
    cellValue,     \* the value a cell or a file field is given to show
    inferredType,  \* what inferTypeFromValue returned for cellValue
    rendered       \* the outcome of the last render of cellValue

sideFormVars == <<props, isOpen, globalError, validationErrors, submitting,
                  pending, editRecord>>

storeVars == <<rowSelection, sortingFields, listeners, mounted, invoked,
               history, tableData>>

selectVars == <<selectValue, emitted>>

cellVars == <<cellValue, inferredType, rendered>>

vars == <<fields, zSchema, fieldTypes, fieldOptions, tableTypes,
          qPath, qType, qOptions, formData, parsed, step,
          sideFormVars, storeVars, selectVars, cellVars>>

(***************************************************************************)
(* Bounds of the model.                                                    *)
(***************************************************************************)
MaxFields == 2      \* longest field list of the composition specification
MaxWrap == 2        \* deepest stack of wrappers around a base validator

(***************************************************************************)
(* Sequence helpers.                                                       *)
(***************************************************************************)
Last(s) == s[Len(s)]
Front(s) == SubSeq(s, 1, Len(s) - 1)
Range(s) == {s[i] : i \in 1..Len(s)}
IndexOf(s, e) == CHOOSE i \in 1..Len(s) : s[i] = e

(***************************************************************************)
(* String.prototype.split("."): the segments between the dots.  It never   *)
(* returns an empty array; "a." splits into "a" and the empty string.      *)
(***************************************************************************)
RECURSIVE Split(_)
Split(s) ==
    IF \A i \in 1..Len(s) : s[i] # "."
    THEN <<s>>
    ELSE LET i == CHOOSE k \in 1..Len(s) :
                      s[k] = "." /\ \A j \in 1..(k - 1) : s[j] # "."
         IN  <<SubSeq(s, 1, i - 1)>> \o Split(SubSeq(s, i + 1, Len(s)))

(***************************************************************************)
(* JavaScript objects.  kind names the class ("Object" for a plain         *)
(* object, "ZodString" ... for a validator instance, "undefined" and       *)
(* "null" for the two empty values).                                       *)
(*   opts        ZodEnum: the options; ZodEffects: the name of the         *)
(*               refinement; ZodString: its checks                         *)
(*   keys, sub   plain object: its own properties, in insertion order;     *)
(*               ZodObject: its shape; ZodArray: sub = <<_def.type>>;      *)
(*               ZodOptional, ZodNullable, ZodDefault:                     *)
(*               sub = <<_def.innerType>>; ZodEffects: sub =               *)
(*               <<_def.schema>>; ZodUnion: sub = _def.options             *)
(*   xkeys, xsub properties assigned onto a validator instance from        *)
(*               outside (JavaScript lets any object take new properties)  *)
(***************************************************************************)
Node(k, o, ks, s) ==
    [kind |-> k, opts |-> o, keys |-> ks, sub |-> s, xkeys |-> <<>>, xsub |-> <<>>]

Undefined == Node("undefined", <<>>, <<>>, <<>>)
Null == Node("null", <<>>, <<>>, <<>>)
EmptyObject == Node("Object", <<>>, <<>>, <<>>)

ZodString == Node("ZodString", <<>>, <<>>, <<>>)
ZodStringMin1 == Node("ZodString", <<"min1">>, <<>>, <<>>)
ZodNumber == Node("ZodNumber", <<>>, <<>>, <<>>)
ZodDate == Node("ZodDate", <<>>, <<>>, <<>>)
ZodBoolean == Node("ZodBoolean", <<>>, <<>>, <<>>)
ZodAny == Node("ZodAny", <<>>, <<>>, <<>>)
ZodEnum(options) == Node("ZodEnum", options, <<>>, <<>>)
ZodArray(type) == Node("ZodArray", <<>>, <<>>, <<type>>)
ZodOptional(innerType) == Node("ZodOptional", <<>>, <<>>, <<innerType>>)
ZodNullable(innerType) == Node("ZodNullable", <<>>, <<>>, <<innerType>>)
\* sub = <<_def.innerType, the value _def.defaultValue() returns>>
ZodDefault(innerType, value) == Node("ZodDefault", <<>>, <<>>, <<innerType, value>>)
ZodEffects(refinement, schema) == Node("ZodEffects", <<refinement>>, <<>>, <<schema>>)
ZodUnion(options) == Node("ZodUnion", <<>>, <<>>, options)
ZodObject(ks, vs) == Node("ZodObject", <<>>, ks, vs)

ZodKinds ==
    {"ZodString", "ZodNumber", "ZodDate", "ZodBoolean", "ZodAny", "ZodEnum",
     "ZodArray", "ZodOptional", "ZodNullable", "ZodDefault", "ZodEffects",
     "ZodUnion", "ZodObject"}

\* x instanceof z.ZodType; for the values of this model also: "_def" in x
IsZodType(x) == x.kind \in ZodKinds

(***************************************************************************)
(* Property access on a JavaScript object: `k in o`, o[k], o[k] = v.       *)
(* A plain object keeps its properties in keys/sub; a validator instance   *)
(* keeps the properties assigned onto it in xkeys/xsub.  Field path        *)
(* segments are field names: none is a member of Object.prototype or of a  *)
(* Zod class, so `k in o` sees only the properties that were assigned.     *)
(***************************************************************************)
PropKeys(o) == IF o.kind = "Object" THEN o.keys ELSE o.xkeys
PropVals(o) == IF o.kind = "Object" THEN o.sub ELSE o.xsub

HasProp(o, k) == k \in Range(PropKeys(o))

GetProp(o, k) ==
    IF HasProp(o, k) THEN PropVals(o)[IndexOf(PropKeys(o), k)] ELSE Undefined

SetProp(o, k, v) ==
    LET ks == PropKeys(o)
        vs == PropVals(o)
        nks == IF HasProp(o, k) THEN ks ELSE Append(ks, k)
        nvs == IF HasProp(o, k)
               THEN [vs EXCEPT ![IndexOf(ks, k)] = v]
               ELSE Append(vs, v)
    IN  IF o.kind = "Object"
        THEN [o EXCEPT !.keys = nks, !.sub = nvs]
        ELSE [o EXCEPT !.xkeys = nks, !.xsub = nvs]

\* schema.shape[k] of a ZodObject
ShapeGet(o, k) ==
    IF k \in Range(o.keys) THEN o.sub[IndexOf(o.keys, k)] ELSE Undefined

(***************************************************************************)
(* JavaScript values, as the same records: a string or a boolean carries   *)
(* its content in opts; an array its elements in sub; a plain object its   *)
(* properties in keys/sub.                                                 *)
(***************************************************************************)
Str(s) == Node("string", <<s>>, <<>>, <<>>)
Num(n) == Node("number", <<n>>, <<>>, <<>>)
Bool(b) == Node("boolean", <<b>>, <<>>, <<>>)
DateValue == Node("Date", <<>>, <<>>, <<>>)
\* new Date(NaN): a Date whose getTime() is NaN
InvalidDate == Node("Date", <<"NaN">>, <<>>, <<>>)
FileValue == Node("File", <<>>, <<>>, <<>>)
Arr(elems) == Node("Array", <<>>, <<>>, elems)
Obj(ks, vs) == Node("Object", <<>>, ks, vs)

\* data[k] and `k in data` as Zod's object parser reads them: a File has
\* none of the keys of a shape
DataGet(data, k) == IF data.kind = "Object" THEN GetProp(data, k) ELSE Undefined
DataHas(data, k) == data.kind = "Object" /\ HasProp(data, k)

(***************************************************************************)
(* schema.safeParse(data) of Zod 3, for the validator kinds of the model:  *)
(* [ok, out].  An object schema strips unknown keys and keeps a key whose  *)
(* value is undefined only when the input had the key; a union returns     *)
(* the result of its first option that accepts.                            *)
(***************************************************************************)
Failure == [ok |-> FALSE, out |-> Undefined]
Success(v) == [ok |-> TRUE, out |-> v]

\* the refinement function of a ZodEffects: z.instanceof(File), or a
\* user's .refine(v => v !== "bad")
Refines(refinement, v) ==
    IF refinement = "instanceofFile" THEN v.kind = "File" ELSE v # Str("bad")

\* the entries of a parsed object that finalizeObject keeps
RECURSIVE KeptKeys(_, _, _, _)
KeptKeys(ks, rs, data, i) ==
    IF i > Len(ks) THEN <<>>
    ELSE (IF rs[i].out # Undefined \/ DataHas(data, ks[i]) THEN <<ks[i]>> ELSE <<>>)
         \o KeptKeys(ks, rs, data, i + 1)

RECURSIVE KeptVals(_, _, _, _)
KeptVals(ks, rs, data, i) ==
    IF i > Len(ks) THEN <<>>
    ELSE (IF rs[i].out # Undefined \/ DataHas(data, ks[i]) THEN <<rs[i].out>> ELSE <<>>)
         \o KeptVals(ks, rs, data, i + 1)

RECURSIVE safeParse(_, _)
safeParse(schema, data) ==
    CASE schema.kind = "ZodString" ->
           IF data.kind = "string" /\ ("min1" \in Range(schema.opts) => data # Str(""))
           THEN Success(data) ELSE Failure
      [] schema.kind = "ZodNumber" ->
           IF data.kind = "number" THEN Success(data) ELSE Failure
      [] schema.kind = "ZodDate" ->
           IF data.kind = "Date" /\ data # InvalidDate THEN Success(data) ELSE Failure
      [] schema.kind = "ZodBoolean" ->
           IF data.kind = "boolean" THEN Success(data) ELSE Failure
      [] schema.kind = "ZodAny" -> Success(data)
      [] schema.kind = "ZodEnum" ->
           IF data.kind = "string" /\ data.opts[1] \in Range(schema.opts)
           THEN Success(data) ELSE Failure
      [] schema.kind = "ZodArray" ->
           IF data.kind # "Array" THEN Failure
           ELSE LET rs == [i \in 1..Len(data.sub) |-> safeParse(schema.sub[1], data.sub[i])]
                IN  IF \A i \in 1..Len(rs) : rs[i].ok
                    THEN Success(Arr([i \in 1..Len(rs) |-> rs[i].out]))
                    ELSE Failure
      [] schema.kind = "ZodOptional" ->
           IF data = Undefined THEN Success(Undefined)
           ELSE safeParse(schema.sub[1], data)
      [] schema.kind = "ZodNullable" ->
           IF data = Null THEN Success(Null)
           ELSE safeParse(schema.sub[1], data)
      [] schema.kind = "ZodDefault" ->
           safeParse(schema.sub[1], IF data = Undefined THEN schema.sub[2] ELSE data)
      [] schema.kind = "ZodEffects" ->
           LET r == safeParse(schema.sub[1], data)
           IN  IF r.ok /\ Refines(schema.opts[1], r.out) THEN r ELSE Failure
      [] schema.kind = "ZodUnion" ->
           IF \E i \in 1..Len(schema.sub) : safeParse(schema.sub[i], data).ok
           THEN safeParse(schema.sub[CHOOSE i \in 1..Len(schema.sub) :
                              /\ safeParse(schema.sub[i], data).ok
                              /\ \A j \in 1..(i - 1) : ~safeParse(schema.sub[j], data).ok],
                          data)
           ELSE Failure
      [] schema.kind = "ZodObject" ->
           IF data.kind \notin {"Object", "File"} THEN Failure
           ELSE LET rs == [i \in 1..Len(schema.keys) |->
                              safeParse(schema.sub[i], DataGet(data, schema.keys[i]))]
                IN  IF \A i \in 1..Len(rs) : rs[i].ok
                    THEN Success(Obj(KeptKeys(schema.keys, rs, data, 1),
                                     KeptVals(schema.keys, rs, data, 1)))
                    ELSE Failure
      [] OTHER -> Failure

(***************************************************************************)
(* fileSchema() and isFileSchema.                                          *)
(***************************************************************************)
KeyKey == <<"key">>
UploadSignatureKey == <<"upload_signature">>
UrlKey == <<"url">>

\* z.instanceof(File) is a ZodEffects over ZodAny
ZodInstanceOfFile == ZodEffects("instanceofFile", ZodAny)

FileReference ==
    ZodObject(<<KeyKey, UploadSignatureKey, UrlKey>>,
              <<ZodStringMin1, ZodStringMin1, ZodOptional(ZodString)>>)

fileSchema == ZodUnion(<<ZodInstanceOfFile, FileReference>>)

isFileSchema(schema) ==
    IF schema.kind = "ZodUnion"
    THEN LET options == schema.sub
             emptyFile == FileValue
             hasFileInstance ==
                 \E i \in 1..Len(options) : safeParse(options[i], emptyFile).ok
             hasFileReference ==
                 \E i \in 1..Len(options) :
                     /\ options[i].kind = "ZodObject"
                     /\ ShapeGet(options[i], KeyKey).kind = "ZodString"
                     /\ ShapeGet(options[i], UploadSignatureKey).kind = "ZodString"
         IN  hasFileInstance /\ hasFileReference
    ELSE FALSE

(***************************************************************************)
(* zodFromFields: the reduce that builds the nested shape, then            *)
(* makeZodObject.                                                          *)
(***************************************************************************)
\* lines 93-101: walk `parts` from `current`, creating {} where a part is
\* missing, and assign field.z under lastPart.  The walk never checks that
\* what it steps into is a plain object.
RECURSIVE AssignPath(_, _, _, _)
AssignPath(current, parts, lastPart, z) ==
    IF parts = <<>>
    THEN SetProp(current, lastPart, z)
    ELSE LET part == Head(parts)
             next == IF HasProp(current, part) THEN GetProp(current, part)
                     ELSE EmptyObject
         IN  SetProp(current, part, AssignPath(next, Tail(parts), lastPart, z))

\* lines 88-102: one step of the reduce
ShapeStep(acc, field) ==
    LET parts == Split(field.field)
        lastPart == IF Last(parts) # <<>> THEN Last(parts) ELSE field.field
    IN  AssignPath(acc, Front(parts), lastPart, field.z)

RECURSIVE ShapeOf(_)
ShapeOf(fs) ==
    IF fs = <<>> THEN EmptyObject ELSE ShapeStep(ShapeOf(Front(fs)), Last(fs))

RECURSIVE makeZodObject(_)
makeZodObject(obj) ==
    ZodObject(obj.keys,
              [i \in 1..Len(obj.keys) |->
                  IF IsZodType(obj.sub[i]) THEN obj.sub[i]
                  ELSE makeZodObject(obj.sub[i])])

zodFromFields(fs) == makeZodObject(ShapeOf(fs))

(***************************************************************************)
(* categorizeNestedField and getEnumOptions.                               *)
(***************************************************************************)
\* `type` is a raw shape (a plain object) or a validator; the result is a
\* validator or Null
RECURSIVE getNestedType(_, _)
getNestedType(type, parts) ==
    IF parts = <<>>
    THEN IF IsZodType(type) THEN type ELSE Null
    ELSE LET current == Head(parts)
             rest == Tail(parts)
             nextType ==
                 IF type.kind = "ZodObject" THEN ShapeGet(type, current)
                 ELSE IF HasProp(type, current) THEN GetProp(type, current)
                 ELSE Null
         IN  IF IsZodType(nextType) THEN getNestedType(nextType, rest) ELSE Null

\* a variant of finalTypeOf that looks the whole path string up as one key
\* of the shape, the way validateField reads zSchema.shape[field]
finalTypeOfWholeKey(path, schema) ==
    LET found == IF schema.kind = "ZodObject" THEN ShapeGet(schema, path)
                 ELSE Undefined
    IN  IF IsZodType(found) THEN found ELSE Null

\* getNestedType(zSchema instanceof z.ZodObject ? zSchema.shape : {}, path.split("."))
finalTypeOf(path, schema) ==
    getNestedType(IF schema.kind = "ZodObject" THEN Obj(schema.keys, schema.sub)
                  ELSE EmptyObject,
                  Split(path))

\* finalType instanceof z.ZodEffects ? finalType._def.schema : finalType
unwrappedTypeOf(finalType) ==
    IF finalType.kind = "ZodEffects" THEN finalType.sub[1] ELSE finalType

\* unwrappedType._def?.innerType ?? unwrappedType
innerTypeOf(unwrappedType) ==
    IF unwrappedType.kind \in {"ZodOptional", "ZodNullable", "ZodDefault"}
    THEN unwrappedType.sub[1]
    ELSE unwrappedType

\* a variant of categoryOf that takes every array for a multiple select,
\* the way buildTable does for the fields of a Zod object
categoryOfAnyArray(innerType) ==
    IF innerType.kind = "ZodDate" THEN "Date"
    ELSE IF innerType.kind = "ZodBoolean" THEN "Checkbox"
    ELSE IF innerType.kind = "ZodEnum" THEN "SingleSelect"
    ELSE IF innerType.kind = "ZodArray" THEN "MultipleSelect"
    ELSE IF isFileSchema(innerType) THEN "File"
    ELSE "SingleLine"

\* a variant of categoryOf without the array and file branches
categoryOfNoArrays(innerType) ==
    IF innerType.kind = "ZodDate" THEN "Date"
    ELSE IF innerType.kind = "ZodBoolean" THEN "Checkbox"
    ELSE IF innerType.kind = "ZodEnum" THEN "SingleSelect"
    ELSE "SingleLine"

\* lines 78-88: the category of the unwrapped validator
categoryOf(innerType) ==
    IF innerType.kind = "ZodDate" THEN "Date"
    ELSE IF innerType.kind = "ZodBoolean" THEN "Checkbox"
    ELSE IF innerType.kind = "ZodEnum" THEN "SingleSelect"
    ELSE IF innerType.kind = "ZodArray" /\ innerType.sub[1].kind = "ZodEnum"
         THEN "MultipleSelect"
    ELSE IF innerType.kind = "ZodArray" /\ isFileSchema(innerType.sub[1])
         THEN "MultipleFiles"
    ELSE IF isFileSchema(innerType) THEN "File"
    ELSE "SingleLine"

categorizeNestedField(path, schema) ==
    LET finalType == finalTypeOf(path, schema)
    IN  IF finalType = Null THEN "SingleLine"
        ELSE categoryOf(innerTypeOf(unwrappedTypeOf(finalType)))

\* string[] | null
NoOptions == [isNull |-> TRUE, options |-> <<>>]
Options(o) == [isNull |-> FALSE, options |-> o]

\* a variant of getEnumOptions without the array branch
getEnumOptionsNoArrays(path, schema) ==
    LET finalType == finalTypeOf(path, schema)
        innerType == innerTypeOf(unwrappedTypeOf(finalType))
    IN  IF finalType = Null THEN NoOptions
        ELSE IF innerType.kind = "ZodEnum" THEN Options(innerType.opts)
        ELSE NoOptions

getEnumOptions(path, schema) ==
    LET finalType == finalTypeOf(path, schema)
        innerType == innerTypeOf(unwrappedTypeOf(finalType))
    IN  IF finalType = Null THEN NoOptions
        ELSE IF innerType.kind = "ZodEnum" THEN Options(innerType.opts)
        ELSE IF innerType.kind = "ZodArray" /\ innerType.sub[1].kind = "ZodEnum"
             THEN Options(innerType.sub[1].opts)
        ELSE NoOptions

(***************************************************************************)
(* buildTable, for an array of {header, field, z?, render?}: the type      *)
(* each default renderer captures.                                         *)
(***************************************************************************)
\* z.object({ [field.field]: field.z }): one key, the whole path string
tempSchemaOf(field) == ZodObject(<<field.field>>, <<field.z>>)

tableTypeOf(field) == categorizeNestedField(field.field, tempSchemaOf(field))

(***************************************************************************)
(* lodash _.set and _.get on a path string.  castPath takes the string as  *)
(* one key when it has no dot or when the object has that very property,   *)
(* and splits it otherwise; baseSet replaces a non-object on the way by a  *)
(* new plain object.                                                       *)
(***************************************************************************)
castPath(path, object) ==
    IF (\A i \in 1..Len(path) : path[i] # ".") \/ HasProp(object, path)
    THEN <<path>>
    ELSE Split(path)

isObject(v) == v.kind \in {"Object", "Array", "Date", "File"}

RECURSIVE baseSet(_, _, _)
baseSet(object, path, value) ==
    IF Len(path) = 1
    THEN SetProp(object, path[1], value)
    ELSE LET objValue == GetProp(object, Head(path))
             nested == IF isObject(objValue) THEN objValue ELSE EmptyObject
         IN  SetProp(object, Head(path), baseSet(nested, Tail(path), value))

lodashSet(object, path, value) == baseSet(object, castPath(path, object), value)

RECURSIVE baseGet(_, _)
baseGet(object, path) ==
    IF path = <<>> THEN object
    ELSE IF object \in {Undefined, Null} THEN Undefined
    ELSE baseGet(GetProp(object, Head(path)), Tail(path))

lodashGet(object, path) == baseGet(object, castPath(path, object))

(***************************************************************************)
(* The inputs of the model: field paths, validators, form values.          *)
(***************************************************************************)
FieldPaths ==
    { <<"a">>, <<"b">>, <<"a", "b">>,
      <<"a", ".", "b">>, <<"a", ".", "a">>, <<"b", ".", "a">>,
      <<"a", ".">> }

QueryPaths ==
    FieldPaths \cup { <<"b", ".", "b">>, <<"a", ".", "b", ".", "a">> }

Statuses == <<"active", "inactive", "pending">>

\* z.object({ b: z.enum([...]) }) given as one field's validator
LeafObject == ZodObject(<< <<"b">> >>, <<ZodEnum(Statuses)>>)

BaseValidators ==
    { ZodString, ZodNumber, ZodDate, ZodBoolean, ZodEnum(Statuses),
      ZodArray(ZodEnum(Statuses)), ZodArray(ZodString), ZodArray(fileSchema),
      ZodArray(ZodOptional(ZodEnum(Statuses))),
      fileSchema, ZodUnion(<<ZodString, ZodNumber>>),
      ZodUnion(<<ZodAny, FileReference>>), LeafObject }

WrapperKinds == {"ZodOptional", "ZodNullable", "ZodDefault", "ZodEffects"}

\* a value to give .default(): one the validator accepts
RECURSIVE SampleOf(_)
SampleOf(v) ==
    CASE v.kind = "ZodString" -> Str("x")
      [] v.kind = "ZodNumber" -> Num("1")
      [] v.kind = "ZodDate" -> DateValue
      [] v.kind = "ZodBoolean" -> Bool("false")
      [] v.kind = "ZodEnum" -> Str(v.opts[1])
      [] v.kind = "ZodArray" -> Arr(<<>>)
      [] v.kind = "ZodEffects" ->
           IF v.opts[1] = "instanceofFile" THEN FileValue ELSE SampleOf(v.sub[1])
      [] v.kind = "ZodObject" ->
           Obj(v.keys, [i \in 1..Len(v.keys) |-> SampleOf(v.sub[i])])
      [] v.kind \in {"ZodOptional", "ZodNullable", "ZodDefault", "ZodUnion"} ->
           SampleOf(v.sub[1])
      [] OTHER -> Str("x")

\* v.optional(), v.nullable(), v.default(...), v.refine(...)
WrapsOf(v) ==
    { ZodOptional(v), ZodNullable(v), ZodDefault(v, SampleOf(v)),
      ZodEffects("refine", v) }

RECURSIVE Wrapped(_, _)
Wrapped(S, n) ==
    IF n = 0 THEN S
    ELSE LET W == Wrapped(S, n - 1) IN W \cup UNION {WrapsOf(w) : w \in W}

\* the validators of the lists that are composed and parsed
ComposeValidators ==
    { ZodString, ZodOptional(ZodString), ZodBoolean, ZodEnum(Statuses) }

\* what a field's control, or setField, can put into formData
FormValues == { Str("x"), Bool("true"), Undefined }

\* the field paths without the ones that end in a dot
WellFormedPaths == {p \in FieldPaths : Last(p) # "."}

FieldDefs(P, V) == {[field |-> p, z |-> v] : p \in P, v \in V}

RECURSIVE ListsUpTo(_, _)
ListsUpTo(D, n) ==
    IF n = 0 THEN {<<>>}
    ELSE LET L == ListsUpTo(D, n - 1)
         IN  L \cup {Append(l, d) : l \in {m \in L : Len(m) = n - 1}, d \in D}

\* no onSubmit call is pending
NoCall == [state |-> "none", id |-> Undefined, data |-> Undefined]

\* <CreateForm fields onSubmit />, without getErrorMessage
CreateFormProps == [form |-> "CreateForm", getErrorMessage |-> FALSE]

\* the components that call Table.useHandler, the handlers and the rows
Components == {"c1", "c2"}
Handlers == {"edit", "delete"}
RowIds == {"r1", "r2"}
NoHook == [handler |-> "", listener |-> Undefined]
NoClick == [handler |-> "", row |-> "", calls |-> <<>>]
NoChange == [toggles |-> 0, set |-> FALSE, selected |-> FALSE]

\* nothing inferred, nothing rendered yet
NotInferred == ""
NoRender == [threw |-> FALSE, out |-> ""]

NoParse == [done |-> FALSE, data |-> Undefined, ok |-> FALSE, out |-> Undefined]
NoPath == <<>>

(***************************************************************************)
(* State machine.                                                          *)
(***************************************************************************)
Blank ==
    /\ zSchema = Undefined
    /\ fieldTypes = <<>>
    /\ fieldOptions = <<>>
    /\ tableTypes = <<>>
    /\ qPath = NoPath
    /\ qType = "SingleLine"
    /\ qOptions = NoOptions
    /\ formData = EmptyObject
    /\ parsed = NoParse
    /\ step = "construct"
    /\ isOpen = FALSE
    /\ globalError = Null
    /\ validationErrors = EmptyObject
    /\ submitting = FALSE
    /\ pending = NoCall
    /\ editRecord = Null
    /\ rowSelection = EmptyObject
    /\ sortingFields = <<>>
    /\ listeners = EmptyObject
    /\ mounted = [c \in Components |-> NoHook]
    /\ invoked = NoClick
    /\ history = [r \in RowIds |-> NoChange]
    /\ emitted = <<>>
    /\ inferredType = NotInferred
    /\ rendered = NoRender

\* the props and the data that play no part in composing and categorising
DefaultProps ==
    /\ props = CreateFormProps
    /\ tableData = <<>>
    /\ selectValue = <<>>
    /\ cellValue = Undefined

\* field lists of up to MaxFields fields
Init ==
    /\ fields \in ListsUpTo(FieldDefs(FieldPaths, ComposeValidators), MaxFields) \ {<<>>}
    /\ Blank
    /\ DefaultProps

\* field lists of up to MaxFields fields, none of whose paths ends in a dot
InitParse ==
    /\ fields \in ListsUpTo(FieldDefs(WellFormedPaths, ComposeValidators), MaxFields)
                     \ {<<>>}
    /\ Blank
    /\ DefaultProps

\* one field, with up to MaxWrap wrappers around its validator
InitCategorize ==
    /\ fields \in {<<d>> : d \in FieldDefs(FieldPaths, Wrapped(BaseValidators, MaxWrap))}
    /\ Blank
    /\ DefaultProps

\* BaseSideForm.tsx: the render of SideForm (line 48 and lines 201-215)
SideFormRender ==
    /\ zSchema = Undefined
    /\ zSchema' = zodFromFields(fields)
    /\ fieldTypes' = [i \in 1..Len(fields) |->
                         categorizeNestedField(fields[i].field, zSchema')]
    /\ fieldOptions' = [i \in 1..Len(fields) |->
                           getEnumOptions(fields[i].field, zSchema')]
    /\ step' = "render"
    /\ UNCHANGED <<fields, tableTypes, qPath, qType, qOptions, formData, parsed>>
    /\ UNCHANGED <<sideFormVars, storeVars, selectVars, cellVars>>

\* buildTable(fields) for an array of {header, field, z}
BuildTable ==
    /\ tableTypes = <<>>
    /\ tableTypes' = [i \in 1..Len(fields) |-> tableTypeOf(fields[i])]
    /\ step' = "buildTable"
    /\ UNCHANGED <<fields, zSchema, fieldTypes, fieldOptions,
                   qPath, qType, qOptions, formData, parsed>>
    /\ UNCHANGED <<sideFormVars, storeVars, selectVars, cellVars>>

\* a call of categorizeNestedField(path, zSchema) and getEnumOptions(path, zSchema)
Query(path) ==
    /\ zSchema # Undefined
    /\ qPath' = path
    /\ qType' = categorizeNestedField(path, zSchema)
    /\ qOptions' = getEnumOptions(path, zSchema)
    /\ step' = "query"
    /\ UNCHANGED <<fields, zSchema, fieldTypes, fieldOptions, tableTypes,
                   formData, parsed>>
    /\ UNCHANGED <<sideFormVars, storeVars, selectVars, cellVars>>

\* BaseSideForm.tsx handleFieldChange: _.set on a copy of formData
handleFieldChange(field, value) ==
    /\ zSchema # Undefined
    /\ formData' = lodashSet(formData, field, value)
    /\ step' = "handleFieldChange"
    /\ UNCHANGED <<fields, zSchema, fieldTypes, fieldOptions, tableTypes,
                   qPath, qType, qOptions, parsed>>
    /\ UNCHANGED <<sideFormVars, storeVars, selectVars, cellVars>>

\* BaseSideForm.tsx handleSubmit, line 105: zSchema.safeParse(formData)
SafeParseFormData ==
    /\ zSchema # Undefined
    /\ LET result == safeParse(zSchema, formData)
       IN  parsed' = [done |-> TRUE, data |-> formData,
                      ok |-> result.ok, out |-> result.out]
    /\ step' = "safeParse"
    /\ UNCHANGED <<fields, zSchema, fieldTypes, fieldOptions, tableTypes,
                   qPath, qType, qOptions, formData>>
    /\ UNCHANGED <<sideFormVars, storeVars, selectVars, cellVars>>

(***************************************************************************)
(* The issues of a failed safeParse: result.error.errors, each with the    *)
(* path of the value it is about and a message.  An object schema reports  *)
(* the issues of all its keys, in the order of its shape.                  *)
(***************************************************************************)
Issue(path, message) == [path |-> path, message |-> message]

\* "Required" for a missing value, the description of the mismatch otherwise
MessageFor(v) == IF v = Undefined THEN "Required" ELSE "Invalid value"

\* the keys of the elements of an array, as they appear in an issue's path
IndexKeys == << <<"0">>, <<"1">>, <<"2">> >>

RECURSIVE Flatten(_)
Flatten(ss) == IF ss = <<>> THEN <<>> ELSE Head(ss) \o Flatten(Tail(ss))

RECURSIVE issuesOf(_, _, _)
issuesOf(schema, v, path) ==
    CASE schema.kind = "ZodObject" ->
           IF v.kind \notin {"Object", "File"} THEN <<Issue(path, MessageFor(v))>>
           ELSE Flatten([i \in 1..Len(schema.keys) |->
                           issuesOf(schema.sub[i], DataGet(v, schema.keys[i]),
                                    Append(path, schema.keys[i]))])
      [] schema.kind = "ZodArray" ->
           IF v.kind # "Array" THEN <<Issue(path, MessageFor(v))>>
           ELSE Flatten([i \in 1..Len(v.sub) |->
                           issuesOf(schema.sub[1], v.sub[i], Append(path, IndexKeys[i]))])
      [] schema.kind = "ZodOptional" ->
           IF v = Undefined THEN <<>> ELSE issuesOf(schema.sub[1], v, path)
      [] schema.kind = "ZodNullable" ->
           IF v = Null THEN <<>> ELSE issuesOf(schema.sub[1], v, path)
      [] schema.kind = "ZodDefault" ->
           issuesOf(schema.sub[1], IF v = Undefined THEN schema.sub[2] ELSE v, path)
      [] schema.kind = "ZodEffects" ->
           LET inner == issuesOf(schema.sub[1], v, path)
           IN  IF inner # <<>> THEN inner
               ELSE IF Refines(schema.opts[1], v) THEN <<>>
               ELSE <<Issue(path, "Invalid input")>>
      [] schema.kind = "ZodUnion" ->
           IF safeParse(schema, v).ok THEN <<>> ELSE <<Issue(path, "Invalid input")>>
      [] OTHER ->
           IF safeParse(schema, v).ok THEN <<>> ELSE <<Issue(path, MessageFor(v))>>

(***************************************************************************)
(* SideForm (BaseSideForm.tsx) under CreateForm and UpdateForm.            *)
(***************************************************************************)
\* err.path[0] as a property key; String(undefined) for an empty path
UndefinedKey == <<"u", "n", "d", "e", "f", "i", "n", "e", "d">>
PathHead(path) == IF path = <<>> THEN UndefinedKey ELSE path[1]

\* lines 107-114: newErrors[err.path[0]] = err.message, for each issue in turn
RECURSIVE newErrorsOf(_, _)
newErrorsOf(issues, newErrors) ==
    IF issues = <<>> THEN newErrors
    ELSE newErrorsOf(Tail(issues),
                     SetProp(newErrors, PathHead(Head(issues).path),
                             Str(Head(issues).message)))

\* line 211: error={validationErrors[field.field]}
errorOf(field) == GetProp(validationErrors, field)

\* Field/index.tsx line 41
shouldShowError(error) == error \notin {Undefined, Null} /\ error # Str("")

\* line 206: value={_.get(formData, field.field) ?? ""}
valueOf(field) ==
    LET v == lodashGet(formData, field)
    IN  IF v \in {Undefined, Null} THEN Str("") ELSE v

\* lodash _.uniq, _.difference and _.xor of two arrays
RECURSIVE uniq(_)
uniq(array) ==
    IF array = <<>> THEN <<>>
    ELSE LET rest == uniq(Front(array))
         IN  IF Last(array) \in Range(rest) THEN rest ELSE Append(rest, Last(array))

difference(array, values) == SelectSeq(array, LAMBDA x : x \notin Range(values))

xor(a, b) == uniq(difference(a, b) \o difference(b, a))

\* what the text inputs of the model are given: some text, a number, nothing
TextInputs == {"x", "5", ""}

\* Field/index.tsx: the values a field's control hands to onChange, by the
\* category of the field.  A date or text input fires a change only when
\* what it displays changes; a checkbox hands over the opposite of what it
\* shows.
ControlValues(i) ==
    LET type == fieldTypes[i]
        options == fieldOptions[i]
        current == valueOf(fields[i].field)
        selected == IF current.kind = "Array"
                    THEN [k \in 1..Len(current.sub) |-> current.sub[k].opts[1]]
                    ELSE <<>>
        checked == current \notin {Str(""), Bool("false")}
    IN  CASE type = "Date" ->
               IF current = DateValue THEN {InvalidDate} ELSE {DateValue}
          [] type = "Checkbox" ->
               {IF checked THEN Bool("false") ELSE Bool("true")}
          [] type = "SingleSelect" /\ ~options.isNull ->
               {Str(options.options[k]) : k \in 1..Len(options.options)} \cup {Str("")}
          [] type = "MultipleSelect" /\ ~options.isNull ->
               { LET newValue == xor(selected, <<options.options[k]>>)
                 IN  Arr([j \in 1..Len(newValue) |-> Str(newValue[j])])
                 : k \in 1..Len(options.options) }
          [] OTHER -> {Str(t) : t \in TextInputs} \ {current}

\* Number(text) of the text inputs: NaN for text that is no number
IsNaNText(text) == text \notin {"5", ""}

\* lines 57-72: validateField(field, value), the new validationErrors
validateField(field, v) ==
    LET fieldSchema == ShapeGet(zSchema, field)
        errors == IF IsZodType(fieldSchema) THEN issuesOf(fieldSchema, v, <<>>) ELSE <<>>
    IN  IF ~IsZodType(fieldSchema) THEN validationErrors
        ELSE IF errors = <<>> THEN SetProp(validationErrors, field, Null)
        ELSE SetProp(validationErrors, field, Str(errors[1].message))

\* the user's getErrorMessage, as a function of the error
getErrorMessage(error) == Node("string", <<"getErrorMessage", error>>, <<>>, <<>>)

DefaultErrorMessage == Str("Ocurrio un error, intenta de nuevo.")

\* a variant that always shows the default message
globalErrorDefaultOnly(provided, error) == DefaultErrorMessage

\* lines 126-129: getErrorMessage?.(error) ?? the default message
globalErrorOf(provided, error) ==
    IF provided THEN getErrorMessage(error) ELSE DefaultErrorMessage

IdKey == <<"i", "d">>
NoEditRecordError == "No edit record provided"

\* a variant of the call that hands over the form data whatever the record
onSubmitCallFirstRecord(form, record, formValues) ==
    [state |-> "called", id |-> Str("1"), data |-> formValues]

\* SideForm's onSubmit prop called with the form data: the user's onSubmit
\* under CreateForm, UpdateForm's handleSubmit (lines 94-99) under UpdateForm
onSubmitCall(form, record, formValues) ==
    IF form = "CreateForm"
    THEN [state |-> "called", id |-> Undefined, data |-> formValues]
    ELSE IF record = Null
    THEN [state |-> "threw", id |-> Undefined, data |-> Undefined]
    ELSE [state |-> "called", id |-> GetProp(record, IdKey), data |-> formValues]

\* ref.open(), lines 143-147; CreateForm hands it on as its own open()
open ==
    /\ zSchema # Undefined
    /\ props.form = "CreateForm"
    /\ isOpen' = TRUE
    /\ globalError' = Null
    /\ validationErrors' = EmptyObject
    /\ step' = "open"
    /\ UNCHANGED <<fields, zSchema, fieldTypes, fieldOptions, tableTypes,
                   qPath, qType, qOptions, formData, parsed,
                   props, submitting, pending, editRecord, storeVars, selectVars, cellVars>>

\* a click on the overlay or on the close button, lines 157 and 175
closePanel ==
    /\ isOpen
    /\ isOpen' = FALSE
    /\ step' = "close"
    /\ UNCHANGED <<fields, zSchema, fieldTypes, fieldOptions, tableTypes,
                   qPath, qType, qOptions, formData, parsed,
                   props, globalError, validationErrors, submitting, pending,
                   editRecord, storeVars, selectVars, cellVars>>

\* lines 82-102
handleFieldBlur(field) ==
    /\ zSchema # Undefined
    /\ LET fieldSchema == ShapeGet(zSchema, field)
           valueToValidate == GetProp(formData, field)
       IN  /\ formData' =
                 IF fieldSchema.kind = "ZodNumber" /\ valueToValidate.kind = "string"
                 THEN IF valueToValidate = Str("")
                      THEN SetProp(formData, field, Undefined)
                      ELSE IF ~IsNaNText(valueToValidate.opts[1])
                      THEN SetProp(formData, field, Num(valueToValidate.opts[1]))
                      ELSE formData
                 ELSE formData
           /\ validationErrors' = validateField(field, valueToValidate)
    /\ step' = "handleFieldBlur"
    /\ UNCHANGED <<fields, zSchema, fieldTypes, fieldOptions, tableTypes,
                   qPath, qType, qOptions, parsed,
                   props, isOpen, globalError, submitting, pending, editRecord,
                   storeVars, selectVars, cellVars>>

\* a variant of handleSubmit that calls onSubmit without validating
handleSubmitUngated ==
    /\ zSchema # Undefined
    /\ ~submitting
    /\ submitting' = TRUE
    /\ pending' = [state |-> "called", id |-> Undefined, data |-> formData]
    /\ step' = "handleSubmit"
    /\ UNCHANGED <<fields, zSchema, fieldTypes, fieldOptions, tableTypes,
                   qPath, qType, qOptions, formData, parsed,
                   props, isOpen, globalError, validationErrors, editRecord,
                   storeVars, selectVars, cellVars>>

\* lines 104-133 up to the await of line 122; the button is disabled while
\* submitting (line 225).  An onSubmit that throws before its first await
\* (UpdateForm without an edit record) is caught in the same turn.
handleSubmit ==
    /\ zSchema # Undefined
    /\ ~submitting
    /\ LET result == safeParse(zSchema, formData)
           call == onSubmitCall(props.form, editRecord, formData)
       IN  IF ~result.ok
           THEN /\ validationErrors' =
                       newErrorsOf(issuesOf(zSchema, formData, <<>>), EmptyObject)
                /\ UNCHANGED <<submitting, pending, globalError>>
           ELSE IF call.state = "threw"
           THEN /\ globalError' = globalErrorOf(props.getErrorMessage, NoEditRecordError)
                /\ UNCHANGED <<submitting, pending, validationErrors>>
           ELSE /\ submitting' = TRUE
                /\ pending' = call
                /\ UNCHANGED <<validationErrors, globalError>>
    /\ step' = "handleSubmit"
    /\ UNCHANGED <<fields, zSchema, fieldTypes, fieldOptions, tableTypes,
                   qPath, qType, qOptions, formData, parsed,
                   props, isOpen, editRecord, storeVars, selectVars, cellVars>>

\* lines 122-124 and 130-131: the awaited onSubmit resolves
onSubmitResolves ==
    /\ pending.state = "called"
    /\ isOpen' = FALSE
    /\ formData' = EmptyObject
    /\ submitting' = FALSE
    /\ pending' = NoCall
    /\ step' = "resolved"
    /\ UNCHANGED <<fields, zSchema, fieldTypes, fieldOptions, tableTypes,
                   qPath, qType, qOptions, parsed,
                   props, globalError, validationErrors, editRecord,
                   storeVars, selectVars, cellVars>>

\* the errors the user's onSubmit rejects with
Errors == {"NetworkError"}

\* lines 125-131: the awaited onSubmit rejects
onSubmitRejects(error) ==
    /\ pending.state = "called"
    /\ globalError' = globalErrorOf(props.getErrorMessage, error)
    /\ submitting' = FALSE
    /\ pending' = NoCall
    /\ step' = "rejected"
    /\ UNCHANGED <<fields, zSchema, fieldTypes, fieldOptions, tableTypes,
                   qPath, qType, qOptions, formData, parsed,
                   props, isOpen, validationErrors, editRecord,
                   storeVars, selectVars, cellVars>>

\* UpdateForm lines 105-112: setField for every entry of the record but id
RECURSIVE setFields(_, _, _)
setFields(formValues, record, i) ==
    IF i > Len(record.keys) THEN formValues
    ELSE setFields(IF record.keys[i] # IdKey
                   THEN lodashSet(formValues, record.keys[i], record.sub[i])
                   ELSE formValues,
                   record, i + 1)

\* UpdateForm lines 102-113
openEditModal(record) ==
    /\ zSchema # Undefined
    /\ props.form = "UpdateForm"
    /\ editRecord' = record
    /\ isOpen' = TRUE
    /\ globalError' = Null
    /\ validationErrors' = EmptyObject
    /\ formData' = setFields(formData, record, 1)
    /\ step' = "openEditModal"
    /\ UNCHANGED <<fields, zSchema, fieldTypes, fieldOptions, tableTypes,
                   qPath, qType, qOptions, parsed,
                   props, submitting, pending, storeVars, selectVars, cellVars>>

\* the records handed to openEditModal
EditRecords ==
    { Obj(<<IdKey, <<"a">>>>, <<Str("1"), Str("x")>>),
      Obj(<<IdKey, <<"a">>>>, <<Str("2"), Str("x")>>),
      Obj(<<IdKey, <<"a">>, <<"c">>>>, <<Str("3"), Str("x"), Str("y")>>) }

\* the field lists of the forms
FormFieldLists ==
    { << [field |-> <<"a">>, z |-> ZodString],
         [field |-> <<"b">>, z |-> ZodOptional(ZodDate)] >>,
      << [field |-> <<"a", ".", "b">>, z |-> ZodString] >>,
      << [field |-> <<"a">>, z |-> ZodOptional(ZodString)] >>,
      << [field |-> <<"a">>, z |-> ZodNumber] >>,
      << [field |-> <<"a">>, z |-> ZodDefault(ZodString, Str("x"))] >> }

InitForm ==
    /\ fields \in FormFieldLists
    /\ Blank
    /\ props \in [form : {"CreateForm", "UpdateForm"}, getErrorMessage : BOOLEAN]
    /\ tableData = <<>>
    /\ selectValue = <<>>
    /\ cellValue = Undefined

\* a form on the page: opened, filled, submitted
NextForm ==
    \/ SideFormRender
    \/ open
    \/ closePanel
    \/ \E record \in EditRecords : openEditModal(record)
    \/ \E i \in 1..Len(fieldTypes) : \E v \in ControlValues(i) :
           handleFieldChange(fields[i].field, v)
    \/ \E i \in 1..Len(fieldTypes) : handleFieldBlur(fields[i].field)
    \/ handleSubmit
    \/ onSubmitResolves
    \/ \E error \in Errors : onSubmitRejects(error)

(***************************************************************************)
(* The table store (useTableStore) and the hooks of a built table.         *)
(* A row is its id; history keeps, beside the store, what was done to      *)
(* each row: the parity of its toggles, whether setRowSelection was ever   *)
(* called on it, and whether it is selected now.                           *)
(***************************************************************************)
True == Bool("true")
False == Bool("false")

\* !!v for the values of rowSelection and listeners
Truthy(v) == v \notin {Undefined, Null, False, Str("")}

Not(v) == IF Truthy(v) THEN False ELSE True

\* a variant of toggleRowSelection that never selects
toggleRowSelectionOff(selection, rowId) == SetProp(selection, rowId, False)

\* lines 208-216: the new rowSelection
toggleRowSelectionOf(selection, rowId) ==
    SetProp(selection, rowId, Not(GetProp(selection, rowId)))

\* lines 217-219: the new rowSelection
setRowSelectionOf(selection, rowId, v) == SetProp(selection, rowId, v)

\* line 266
isAllSelected(rows) == \A i \in 1..Len(rows) : Truthy(GetProp(rowSelection, rows[i]))

\* lines 286-288: setRowSelection(row.id, !isAllSelected) for each row
RECURSIVE setAll(_, _, _)
setAll(selection, rows, v) ==
    IF rows = <<>> THEN selection
    ELSE setAll(setRowSelectionOf(selection, Head(rows), v), Tail(rows), v)

\* lines 378-381
useSelected(rows) == SelectSeq(rows, LAMBDA row : Truthy(GetProp(rowSelection, row)))

\* a variant of toggleSortingField that sorts ascending first
toggleSortingFieldAscFirst(sorting, field) ==
    IF \A i \in 1..Len(sorting) : sorting[i].field # field
    THEN Append(sorting, [field |-> field, direction |-> "asc"])
    ELSE SelectSeq(sorting, LAMBDA f : f.field # field)

\* lines 221-237: the new sortingFields
toggleSortingFieldOf(sorting, field) ==
    LET existing == {i \in 1..Len(sorting) : sorting[i].field = field}
        existingSortingField ==
            sorting[CHOOSE i \in existing : \A j \in existing : i <= j]
    IN  IF existing = {}
        THEN Append(sorting, [field |-> field, direction |-> "desc"])
        ELSE IF existingSortingField.direction = "desc"
        THEN [i \in 1..Len(sorting) |->
                 IF sorting[i].field = field
                 THEN [sorting[i] EXCEPT !.direction = "asc"]
                 ELSE sorting[i]]
        ELSE SelectSeq(sorting, LAMBDA f : f.field # field)

\* the columns a table can be sorted by
SortFields == {"name", "email", "status"}

\* the `data` props of the model: rows in either order, a row missing
TableDatas == { <<"r1", "r2">>, <<"r2", "r1">>, <<"r2">>, <<>> }

toggleRowSelection(rowId) ==
    /\ rowSelection' = toggleRowSelectionOf(rowSelection, rowId)
    /\ history' = [history EXCEPT ![rowId] =
                      [toggles |-> (@.toggles + 1) % 2, set |-> @.set,
                       selected |-> ~@.selected]]
    /\ step' = "toggleRowSelection"
    /\ UNCHANGED <<fields, zSchema, fieldTypes, fieldOptions, tableTypes,
                   qPath, qType, qOptions, formData, parsed, sideFormVars,
                   sortingFields, listeners, mounted, invoked, tableData,
                   selectVars, cellVars>>

setRowSelection(rowId, v) ==
    /\ rowSelection' = setRowSelectionOf(rowSelection, rowId, IF v THEN True ELSE False)
    /\ history' = [history EXCEPT ![rowId] =
                      [toggles |-> @.toggles, set |-> TRUE, selected |-> v]]
    /\ step' = "setRowSelection"
    /\ UNCHANGED <<fields, zSchema, fieldTypes, fieldOptions, tableTypes,
                   qPath, qType, qOptions, formData, parsed, sideFormVars,
                   sortingFields, listeners, mounted, invoked, tableData,
                   selectVars, cellVars>>

\* lines 283-308: a click on the header checkbox
selectAllClick ==
    /\ tableData # <<>>
    /\ LET v == ~isAllSelected(tableData)
       IN  /\ rowSelection' = setAll(rowSelection, tableData, IF v THEN True ELSE False)
           /\ history' = [r \in RowIds |->
                             IF r \in Range(tableData)
                             THEN [toggles |-> history[r].toggles, set |-> TRUE,
                                   selected |-> v]
                             ELSE history[r]]
    /\ step' = "selectAllClick"
    /\ UNCHANGED <<fields, zSchema, fieldTypes, fieldOptions, tableTypes,
                   qPath, qType, qOptions, formData, parsed, sideFormVars,
                   sortingFields, listeners, mounted, invoked, tableData,
                   selectVars, cellVars>>

toggleSortingField(field) ==
    /\ sortingFields' = toggleSortingFieldOf(sortingFields, field)
    /\ step' = "toggleSortingField"
    /\ UNCHANGED <<fields, zSchema, fieldTypes, fieldOptions, tableTypes,
                   qPath, qType, qOptions, formData, parsed, sideFormVars,
                   rowSelection, listeners, mounted, invoked, history, tableData,
                   selectVars, cellVars>>

InitStore ==
    /\ fields = <<>>
    /\ Blank
    /\ props = CreateFormProps
    /\ tableData \in TableDatas
    /\ selectValue = <<>>
    /\ cellValue = Undefined

\* the rows and the headers of a table being clicked, the store being called
NextStore ==
    \/ \E rowId \in RowIds : toggleRowSelection(rowId)
    \/ \E rowId \in RowIds, v \in BOOLEAN : setRowSelection(rowId, v)
    \/ selectAllClick
    \/ \E field \in SortFields : toggleSortingField(field)

(***************************************************************************)
(* Handlers: the listeners of the store, useHandler and onHandlerClick.    *)
(***************************************************************************)
\* the listener function a component passes to useHandler: its own, a new
\* one when the component renders with another version of it
Listener(c, version) == Node("function", <<c, version>>, <<>>, <<>>)
Versions == {"v1", "v2"}

\* lines 239-246: the new listeners
addListenerOf(registered, handler, callback) == SetProp(registered, handler, callback)

\* lines 247-254: the new listeners
removeListenerOf(registered, handler) == SetProp(registered, handler, Undefined)

\* lines 268-277: the listener calls a click on a handler makes
listenerCalls(registered, handler, row) ==
    LET listener == GetProp(registered, handler)
    IN  IF Truthy(listener) THEN <<[listener |-> listener, row |-> row]>> ELSE <<>>

\* lines 383-391: the effect of useHandler when the component mounts
useHandlerMount(c, handler, listener) ==
    /\ mounted[c] = NoHook
    /\ listeners' = addListenerOf(listeners, handler, listener)
    /\ mounted' = [mounted EXCEPT ![c] = [handler |-> handler, listener |-> listener]]
    /\ step' = "useHandlerMount"
    /\ UNCHANGED <<fields, zSchema, fieldTypes, fieldOptions, tableTypes,
                   qPath, qType, qOptions, formData, parsed, sideFormVars,
                   rowSelection, sortingFields, invoked, history, tableData,
                   selectVars, cellVars>>

\* the effect's cleanup and the effect again, when handler or listener
\* changed between two renders
useHandlerUpdate(c, handler, listener) ==
    /\ mounted[c] # NoHook
    /\ mounted[c] # [handler |-> handler, listener |-> listener]
    /\ listeners' = addListenerOf(removeListenerOf(listeners, mounted[c].handler),
                                  handler, listener)
    /\ mounted' = [mounted EXCEPT ![c] = [handler |-> handler, listener |-> listener]]
    /\ step' = "useHandlerUpdate"
    /\ UNCHANGED <<fields, zSchema, fieldTypes, fieldOptions, tableTypes,
                   qPath, qType, qOptions, formData, parsed, sideFormVars,
                   rowSelection, sortingFields, invoked, history, tableData,
                   selectVars, cellVars>>

\* the effect's cleanup when the component unmounts
useHandlerUnmount(c) ==
    /\ mounted[c] # NoHook
    /\ listeners' = removeListenerOf(listeners, mounted[c].handler)
    /\ mounted' = [mounted EXCEPT ![c] = NoHook]
    /\ step' = "useHandlerUnmount"
    /\ UNCHANGED <<fields, zSchema, fieldTypes, fieldOptions, tableTypes,
                   qPath, qType, qOptions, formData, parsed, sideFormVars,
                   rowSelection, sortingFields, invoked, history, tableData,
                   selectVars, cellVars>>

\* lines 268-277, for a click on `handler` in the row `row`
onHandlerClick(handler, row) ==
    /\ row \in Range(tableData)
    /\ invoked' = [handler |-> handler, row |-> row,
                   calls |-> listenerCalls(listeners, handler, row)]
    /\ step' = "onHandlerClick"
    /\ UNCHANGED <<fields, zSchema, fieldTypes, fieldOptions, tableTypes,
                   qPath, qType, qOptions, formData, parsed, sideFormVars,
                   rowSelection, sortingFields, listeners, mounted, history,
                   tableData, selectVars, cellVars>>

InitHandlers ==
    /\ fields = <<>>
    /\ Blank
    /\ props = CreateFormProps
    /\ tableData = <<"r1", "r2">>
    /\ selectValue = <<>>
    /\ cellValue = Undefined

\* components with useHandler mounting, rendering again and unmounting,
\* and the handlers of the rows being clicked
NextHandlers ==
    \/ \E c \in Components, handler \in Handlers, version \in Versions :
           useHandlerMount(c, handler, Listener(c, version))
    \/ \E c \in Components, handler \in Handlers, version \in Versions :
           useHandlerUpdate(c, handler, Listener(c, version))
    \/ \E c \in Components : useHandlerUnmount(c)
    \/ \E handler \in Handlers, row \in RowIds :
           onHandlerClick(handler, row)

(***************************************************************************)
(* MultipleSelect (multiple-select.tsx): the value it is given and the     *)
(* change events it hands to onChange.                                     *)
(***************************************************************************)
SelectOptions == <<"o1", "o2", "o3", "o4">>

\* a variant of the toggle that puts a newly selected option first
handleToggleOptionAtFront(current, option) == xor(<<option>>, current)

\* lines 248-251: newValue
handleToggleOptionOf(current, option) == xor(current, <<option>>)

\* lines 248-251 on a click on an option (line 309); the parent stores the
\* value of the change event and renders the component with it
handleToggleOption(option) ==
    /\ emitted' = <<[option |-> option, value |-> handleToggleOptionOf(selectValue, option)]>>
    /\ selectValue' = handleToggleOptionOf(selectValue, option)
    /\ step' = "handleToggleOption"
    /\ UNCHANGED <<fields, zSchema, fieldTypes, fieldOptions, tableTypes,
                   qPath, qType, qOptions, formData, parsed, sideFormVars,
                   storeVars, cellVars>>

\* line 224: value = []
InitSelect ==
    /\ fields = <<>>
    /\ Blank
    /\ props = CreateFormProps
    /\ tableData = <<>>
    /\ selectValue = <<>>
    /\ cellValue = Undefined

NextSelect == \E option \in Range(SelectOptions) : handleToggleOption(option)

(***************************************************************************)
(* Showing a value: inferTypeFromValue (lib/fields.ts), the default cell   *)
(* renderer of a built table (renderField) and the file field of a form    *)
(* (FileInput, FileItem).  A string whose characters matter is kept as     *)
(* the sequence of its characters.                                         *)
(***************************************************************************)
Text(chars) == Node("string", <<"text">>, <<chars>>, <<>>)
Chars(v) == v.keys[1]

Digits == {"0", "1", "2", "3", "4", "5", "6", "7", "8", "9"}

\* \d{n} at the positions from..to of s
IsDigits(s, from, to) == to <= Len(s) /\ \A i \in from..to : s[i] \in Digits

IsAt(s, i, c) == i <= Len(s) /\ s[i] = c

\* line 20: /^\d{4}-\d{2}-\d{2}(T\d{2}:\d{2}:\d{2}(\.\d{3})?Z?)?$/.test(s)
dateRegexTest(s) ==
    LET date == /\ IsDigits(s, 1, 4) /\ IsAt(s, 5, "-")
                /\ IsDigits(s, 6, 7) /\ IsAt(s, 8, "-")
                /\ IsDigits(s, 9, 10)
        time == /\ IsAt(s, 11, "T") /\ IsDigits(s, 12, 13) /\ IsAt(s, 14, ":")
                /\ IsDigits(s, 15, 16) /\ IsAt(s, 17, ":") /\ IsDigits(s, 18, 19)
        millis == IsAt(s, 20, ".") /\ IsDigits(s, 21, 23)
        zOrEnd(from) == Len(s) = from - 1 \/ (Len(s) = from /\ s[from] = "Z")
    IN  /\ date
        /\ \/ Len(s) = 10
           \/ time /\ zOrEnd(20)
           \/ time /\ millis /\ zOrEnd(24)

\* typeof v === "object"
typeofObject(v) == v.kind \in {"null", "Object", "Array", "Date", "File"}

TrueText == Text(<<"t", "r", "u", "e">>)
FalseText == Text(<<"f", "a", "l", "s", "e">>)

\* a variant of inferTypeFromValue that looks at arrays only
inferTypeFromValueArraysOnly(value) ==
    IF value.kind = "Array" /\ \E i \in 1..Len(value.sub) :
           typeofObject(value.sub[i]) /\ value.sub[i] # Null
    THEN "ObjectArray"
    ELSE IF value.kind = "Array" THEN "MultipleSelect"
    ELSE "SingleLine"

\* lines 19-40
inferTypeFromValue(value) ==
    IF value.kind = "Date" THEN "Date"
    ELSE IF value.kind = "string" /\ dateRegexTest(Chars(value)) THEN "Date"
    ELSE IF value = Undefined THEN "Undefined"
    ELSE IF value = Null THEN "Null"
    ELSE IF value = TrueText \/ value = True THEN "Checkbox"
    ELSE IF value = FalseText \/ value = False THEN "Checkbox"
    ELSE IF /\ value.kind = "Array"
            /\ Len(value.sub) > 0
            /\ \E i \in 1..Len(value.sub) :
                   typeofObject(value.sub[i]) /\ value.sub[i] # Null
         THEN "ObjectArray"
    ELSE IF value.kind = "Array" THEN "MultipleSelect"
    ELSE "SingleLine"

\* lines 4-15: the keys of FIELD_TYPES
FIELD_TYPES ==
    {"SingleLine", "Date", "Checkbox", "MultipleSelect", "SingleSelect",
     "ObjectArray", "Undefined", "Null", "File", "MultipleFiles"}

\* what a render returns or throws
Output(out) == [threw |-> FALSE, out |-> out]
Throws(error) == [threw |-> TRUE, out |-> error]

\* part_011 lines 87-101: chips.map(...) with rainbow[chip.length % rainbow.length].alpha(0.8);
\* only a chip with a numeric length finds a colour
chipsRender(value) ==
    IF value.kind # "Array" THEN Throws("TypeError")
    ELSE IF \A i \in 1..Len(value.sub) : value.sub[i].kind \in {"string", "Array"}
    THEN Output("chips")
    ELSE Throws("TypeError")

\* part_011 lines 52-113
renderInferredType(inferred, value) ==
    CASE inferred = "Date" -> Output("date")
      [] inferred \in {"Undefined", "Null"} -> Output("-")
      [] inferred = "Checkbox" -> Output(IF Truthy(value) THEN "checked" ELSE "unchecked")
      [] inferred = "ObjectArray" -> Output("json")
      [] inferred = "SingleSelect" -> Output("chip")
      [] inferred = "MultipleSelect" -> chipsRender(value)
      [] inferred = "SingleLine" -> Output("text")
      [] OTHER -> Throws("Unhandled field type")

\* no type was given to renderField
NoType == ""

\* part_011 lines 46-124, for value = _.get(row, field)
renderField(value, type) ==
    IF type = NoType THEN renderInferredType(inferTypeFromValue(value), value)
    ELSE IF type \in FIELD_TYPES THEN renderInferredType(type, value)
    ELSE Output("text")

\* part_011 lines 152-163: the type of a key of a Zod object given to buildTable
zodObjectTypeOf(field) ==
    IF field.kind = "ZodEnum" THEN "SingleSelect"
    ELSE IF field.kind = "ZodArray" THEN "MultipleSelect"
    ELSE IF field.kind = "ZodDate" THEN "Date"
    ELSE IF field.kind = "ZodBoolean" THEN "Checkbox"
    ELSE IF field.kind = "ZodObject" THEN "ObjectArray"
    ELSE "SingleLine"

\* file-input.tsx lines 131-136 (file-item.tsx lines 114-120): the render
\* of FileItem
FileItem(file) ==
    IF file.kind = "Object" /\ HasProp(file, KeyKey) /\ ~Truthy(GetProp(file, UrlKey))
    THEN Throws("File object must have a url property")
    ELSE Output("file item")

\* file-input.tsx lines 186-204
FileInput(value) ==
    LET hasFile == value.kind = "File" \/ (value.kind = "Object" /\ HasProp(value, KeyKey))
    IN  IF hasFile THEN FileItem(value) ELSE Output("no file chosen")

\* the values of the cells and of the file fields
CellTexts ==
    { <<"x">>, <<>>, <<"t", "r", "u", "e">>, <<"f", "a", "l", "s", "e">>,
      <<"2", "0", "2", "4", "-", "0", "1", "-", "1", "5">>,
      <<"2", "0", "2", "4", "-", "0", "1", "-", "1", "5", "T",
        "1", "0", ":", "2", "0", ":", "3", "0">>,
      <<"2", "0", "2", "4", "-", "0", "1", "-", "1", "5", "T",
        "1", "0", ":", "2", "0", ":", "3", "0", ".", "1", "2", "3", "Z">>,
      <<"2", "0", "2", "4", "-", "0", "1", "-", "1", "5", "T",
        "1", "0", ":", "2", "0">>,
      <<"2", "0", "2", "4", "-", "1", "-", "1", "5">>,
      <<"2", "0", "2", "4", "-", "0", "1", "-", "1", "5", "x">> }

FileReferences ==
    { Obj(<<KeyKey, UploadSignatureKey>>, <<Str("k"), Str("s")>>),
      Obj(<<KeyKey, UploadSignatureKey, UrlKey>>, <<Str("k"), Str("s"), Str("u")>>),
      Obj(<<KeyKey, UploadSignatureKey, UrlKey>>, <<Str("k"), Str("s"), Str("")>>) }

CellValues ==
    {Text(t) : t \in CellTexts}
    \cup { Undefined, Null, True, False, Num("1"), DateValue, InvalidDate,
           EmptyObject, FileValue,
           Arr(<<>>), Arr(<<Text(<<"x">>)>>), Arr(<<Null>>), Arr(<<Num("1")>>),
           Arr(<<Null, EmptyObject>>), Arr(<<DateValue>>), Arr(<<FileValue>>) }
    \cup FileReferences

\* a call of inferTypeFromValue on the value
InferType ==
    /\ inferredType' = inferTypeFromValue(cellValue)
    /\ step' = "inferTypeFromValue"
    /\ UNCHANGED <<fields, zSchema, fieldTypes, fieldOptions, tableTypes,
                   qPath, qType, qOptions, formData, parsed,
                   sideFormVars, storeVars, selectVars, cellValue, rendered>>

\* buildTable(fields) for a Zod object whose shape has the fields as keys
BuildTableOfZodObject ==
    /\ tableTypes = <<>>
    /\ tableTypes' = [i \in 1..Len(fields) |-> zodObjectTypeOf(fields[i].z)]
    /\ step' = "buildTable"
    /\ UNCHANGED <<fields, zSchema, fieldTypes, fieldOptions,
                   qPath, qType, qOptions, formData, parsed,
                   sideFormVars, storeVars, selectVars, cellVars>>

\* part_011 lines 353-361: the default render of the cell of column i
RenderCell(i) ==
    /\ rendered' = renderField(cellValue, tableTypes[i])
    /\ step' = "renderField"
    /\ UNCHANGED <<fields, zSchema, fieldTypes, fieldOptions, tableTypes,
                   qPath, qType, qOptions, formData, parsed,
                   sideFormVars, storeVars, selectVars, cellValue, inferredType>>

\* the same for a table built from field names, lines 176-180
RenderCellOfName ==
    /\ rendered' = renderField(cellValue, NoType)
    /\ step' = "renderFieldOfName"
    /\ UNCHANGED <<fields, zSchema, fieldTypes, fieldOptions, tableTypes,
                   qPath, qType, qOptions, formData, parsed,
                   sideFormVars, storeVars, selectVars, cellValue, inferredType>>

\* Field/index.tsx lines 96-103: the file field of a form showing the value
FileInputRender ==
    /\ rendered' = FileInput(cellValue)
    /\ step' = "FileInput"
    /\ UNCHANGED <<fields, zSchema, fieldTypes, fieldOptions, tableTypes,
                   qPath, qType, qOptions, formData, parsed,
                   sideFormVars, storeVars, selectVars, cellValue, inferredType>>

\* one column with a validator, and a value to show
InitCell ==
    /\ fields \in {<<d>> : d \in FieldDefs({<<"a">>, <<"a", ".", "b">>}, Wrapped(BaseValidators, 1))}
    /\ Blank
    /\ props = CreateFormProps
    /\ tableData = <<>>
    /\ selectValue = <<>>
    /\ cellValue \in CellValues

NextCell ==
    \/ InferType
    \/ BuildTable
    \/ BuildTableOfZodObject
    \/ \E i \in 1..Len(tableTypes) : RenderCell(i)
    \/ RenderCellOfName
    \/ FileInputRender

\* composing, categorising and building the table from a field list
Next ==
    \/ SideFormRender
    \/ BuildTable
    \/ \E path \in QueryPaths : Query(path)

NextCategorize ==
    \/ SideFormRender
    \/ BuildTable
    \/ \E path \in QueryPaths : Query(path)

\* filling the form of a field list and validating it
NextParse ==
    \/ SideFormRender
    \/ \E i \in 1..Len(fields), value \in FormValues :
           handleFieldChange(fields[i].field, value)
    \/ SafeParseFormData

Spec == Init /\ [][Next]_vars

SpecCategorize == InitCategorize /\ [][NextCategorize]_vars

SpecParse == InitParse /\ [][NextParse]_vars

SpecForm == InitForm /\ [][NextForm]_vars

SpecStore == InitStore /\ [][NextStore]_vars

SpecHandlers == InitHandlers /\ [][NextHandlers]_vars

SpecSelect == InitSelect /\ [][NextSelect]_vars

SpecCell == InitCell /\ [][NextCell]_vars

(***************************************************************************)
(* Vocabulary of the properties: what a schema holds at a path, read off   *)
(* the schema's own structure (nested object schemas only).                *)
(***************************************************************************)
IsPrefix(s, t) == Len(s) <= Len(t) /\ SubSeq(t, 1, Len(s)) = s

Segs(i) == Split(fields[i].field)

\* the paths are pairwise distinct and none is a proper prefix of another
PrefixFree ==
    \A i, j \in 1..Len(fields) : i # j => ~IsPrefix(Segs(i), Segs(j))

\* no path ends in a dot
NoTrailingDot ==
    \A i \in 1..Len(fields) : Len(Segs(i)) > 1 => Last(Segs(i)) # <<>>

RECURSIVE ValidatorAt(_, _)
ValidatorAt(schema, segs) ==
    IF segs = <<>> THEN schema
    ELSE IF schema.kind = "ZodObject" /\ Head(segs) \in Range(schema.keys)
         THEN ValidatorAt(ShapeGet(schema, Head(segs)), Tail(segs))
    ELSE Null

\* the key paths of the nested object schemas, not looking into the
\* validators at the paths in `leaves`
RECURSIVE SchemaKeyPaths(_, _, _)
SchemaKeyPaths(schema, prefix, leaves) ==
    IF schema.kind # "ZodObject" \/ prefix \in leaves THEN {}
    ELSE UNION { {Append(prefix, schema.keys[i])}
                   \cup SchemaKeyPaths(schema.sub[i], Append(prefix, schema.keys[i]), leaves)
                 : i \in 1..Len(schema.keys) }

\* the value of a record at a path of segments
RECURSIVE ValueAt(_, _)
ValueAt(record, segs) ==
    IF segs = <<>> THEN record
    ELSE IF record.kind = "Object" /\ Head(segs) \in Range(record.keys)
         THEN ValueAt(GetProp(record, Head(segs)), Tail(segs))
    ELSE Undefined

\* a validator without the wrappers around it
RECURSIVE BaseOf(_)
BaseOf(v) == IF v.kind \in WrapperKinds THEN BaseOf(v.sub[1]) ELSE v

Rendered == zSchema # Undefined
Queried == qPath # NoPath
Found == IF Queried THEN ValidatorAt(zSchema, Split(qPath)) ELSE Null
QueriedNested == Queried /\ Len(Split(qPath)) > 1

IsArrayOfEnum(v) == v.kind = "ZodArray" /\ v.sub[1].kind = "ZodEnum"

SchemaMirrors ==
    /\ \A i \in 1..Len(fields) : ValidatorAt(zSchema, Segs(i)) = fields[i].z
    /\ \A kp \in SchemaKeyPaths(zSchema, <<>>, {Segs(i) : i \in 1..Len(fields)}) :
           \E i \in 1..Len(fields) : IsPrefix(kp, Segs(i))

(***************************************************************************)
(* C1.  zodFromFields: for a field list whose paths are pairwise distinct  *)
(* and prefix-free, the schema holds, at the place reached by following    *)
(* each field's path segments through nested object schemas, exactly that  *)
(* field's validator, and it has no keys other than those segments.        *)
(* Fails for a path that ends in a dot: "a." is stored under the key "a."  *)
(* inside "a", not under the empty segment.                                *)
(***************************************************************************)
C1_SchemaMirrorsFieldList ==
    (Rendered /\ PrefixFree) => SchemaMirrors

\* the same for lists none of whose paths ends in a dot
SchemaMirrorsWellFormedList ==
    (Rendered /\ PrefixFree /\ NoTrailingDot) => SchemaMirrors

(***************************************************************************)
(* C2.  The composed schema accepts a record if and only if every field's  *)
(* validator accepts the record's value at the field's path, and then the  *)
(* parsed data equals the input on the declared fields.  Fails for an      *)
(* optional field below a parent object the record does not have.          *)
(***************************************************************************)
C2_AcceptsIffEveryFieldAccepts ==
    parsed.done =>
        LET everyFieldAccepts ==
                \A i \in 1..Len(fields) :
                    safeParse(fields[i].z, ValueAt(parsed.data, Segs(i))).ok
        IN  /\ parsed.ok <=> everyFieldAccepts
            /\ parsed.ok =>
                   \A i \in 1..Len(fields) :
                       ValueAt(parsed.out, Segs(i)) = ValueAt(parsed.data, Segs(i))

(***************************************************************************)
(* C3.  categorizeNestedField returns Date for a date validator found at   *)
(* the path, Checkbox for a boolean validator, SingleSelect for an enum    *)
(* validator, and SingleLine for a string validator and for the kinds it   *)
(* does not recognise (number, any, object).                               *)
(***************************************************************************)
C3_CategoryOfPlainValidators ==
    Queried =>
        /\ Found.kind = "ZodDate" => qType = "Date"
        /\ Found.kind = "ZodBoolean" => qType = "Checkbox"
        /\ Found.kind = "ZodEnum" => qType = "SingleSelect"
        /\ Found.kind \in {"ZodString", "ZodNumber", "ZodAny", "ZodObject"}
               => qType = "SingleLine"

C3_Witness ==
    QueriedNested /\ Found.kind = "ZodDate" /\ qType = "Date"

(***************************************************************************)
(* C4, as stated.  An array of an enum is MultipleSelect, at a top-level   *)
(* and at a nested path; every array whose element is not an enum is       *)
(* SingleLine.  Fails: an array of fileSchema() is MultipleFiles.          *)
(***************************************************************************)
C4_ArrayOfNonEnumIsSingleLine ==
    Queried =>
        /\ IsArrayOfEnum(Found) => qType = "MultipleSelect"
        /\ (Found.kind = "ZodArray" /\ ~IsArrayOfEnum(Found)) => qType = "SingleLine"

(***************************************************************************)
(* C4, amended.  An array of an enum is MultipleSelect, at a top-level     *)
(* and at a nested path; an array whose element is neither an enum nor a   *)
(* union is SingleLine, an array of fileSchema() is MultipleFiles, and no  *)
(* array whose element is not an enum is MultipleSelect.                   *)
(***************************************************************************)
C4_CategoryOfArrays ==
    Queried =>
        /\ IsArrayOfEnum(Found) => qType = "MultipleSelect"
        /\ (Found.kind = "ZodArray" /\ ~IsArrayOfEnum(Found)) =>
               /\ qType # "MultipleSelect"
               /\ Found.sub[1].kind # "ZodUnion" => qType = "SingleLine"
               /\ Found.sub[1] = fileSchema => qType = "MultipleFiles"

C4_Witness ==
    QueriedNested /\ IsArrayOfEnum(Found) /\ qType = "MultipleSelect"

(***************************************************************************)
(* A union is the file schema when it accepts what fileSchema() accepts.   *)
(***************************************************************************)
FileReferenceValue == Obj(<<KeyKey, UploadSignatureKey>>, <<Str("k"), Str("s")>>)

SampleValues ==
    { FileValue, FileReferenceValue, Str("x"), Num("1"), Undefined, EmptyObject }

AcceptsWhatFileSchemaAccepts(v) ==
    \A x \in SampleValues : safeParse(v, x).ok = safeParse(fileSchema, x).ok

FileCases ==
    /\ Found \in {fileSchema, ZodOptional(fileSchema)} => qType = "File"
    /\ Found = ZodArray(fileSchema) => qType = "MultipleFiles"

(***************************************************************************)
(* C5, as stated.  fileSchema(), also optional, is File; an array of       *)
(* fileSchema() is MultipleFiles; a union that is not the file schema is   *)
(* never File.  Fails: z.union([z.any(), z.object({key, upload_signature,  *)
(* url})]) accepts any value and is categorised File, because isFileSchema *)
(* looks for an option that accepts a File instance and an option with     *)
(* string fields key and upload_signature.                                 *)
(***************************************************************************)
C5_OnlyTheFileSchemaIsFile ==
    Queried =>
        /\ FileCases
        /\ (BaseOf(Found).kind = "ZodUnion"
              /\ ~AcceptsWhatFileSchemaAccepts(BaseOf(Found))) => qType # "File"

(***************************************************************************)
(* C6.  Wrapping is transparent: a field whose validator is wrapped in     *)
(* any stack of optional, default, nullable and refinement gets the        *)
(* category and the options of the validator without the wrappers.  Fails  *)
(* for two wrappers that are not a refinement around one other wrapper,    *)
(* such as z.enum([...]).nullable().optional().                            *)
(***************************************************************************)
C6_WrappingIsTransparent ==
    Rendered =>
        \A i \in 1..Len(fields) :
            LET bare == zodFromFields(<<[field |-> fields[i].field,
                                         z |-> BaseOf(fields[i].z)]>>)
            IN  /\ fieldTypes[i] = categorizeNestedField(fields[i].field, bare)
                /\ fieldOptions[i] = getEnumOptions(fields[i].field, bare)

(***************************************************************************)
(* C7.  getEnumOptions returns the options of an enum, and of the enum of  *)
(* an array of an enum, complete and in declaration order, at a top-level  *)
(* and at a nested path.                                                   *)
(***************************************************************************)
C7_OptionsOfEnums ==
    Queried =>
        /\ Found.kind = "ZodEnum" => qOptions = Options(Found.opts)
        /\ IsArrayOfEnum(Found) => qOptions = Options(Found.sub[1].opts)

C7_Witness ==
    QueriedNested /\ IsArrayOfEnum(Found) /\ qOptions = Options(Statuses)

(***************************************************************************)
(* C8.  For a path that resolves to no validator of the schema (a missing  *)
(* segment, a segment below a validator that is not an object schema)      *)
(* getEnumOptions returns null and categorizeNestedField SingleLine; and   *)
(* getEnumOptions returns null for a field that is neither an enum nor an  *)
(* array of an enum.  Fails for the schema zodFromFields composes from     *)
(* "a" and "a.b": the validator of "a.b" is assigned onto the validator    *)
(* instance of "a", where getNestedType finds it.                          *)
(***************************************************************************)
IsEnumOrArrayOfEnum(v) ==
    \/ BaseOf(v).kind = "ZodEnum"
    \/ BaseOf(v).kind = "ZodArray" /\ BaseOf(BaseOf(v).sub[1]).kind = "ZodEnum"

C8_NullForUnresolvedPaths ==
    Queried =>
        /\ Found = Null => (qOptions = NoOptions /\ qType = "SingleLine")
        /\ (Found # Null /\ ~IsEnumOrArrayOfEnum(Found)) => qOptions = NoOptions

(***************************************************************************)
(* C9.  Category and options agree: categorizeNestedField returns          *)
(* SingleSelect or MultipleSelect exactly when getEnumOptions returns an   *)
(* option list, for the fields the form renders and for any other path.    *)
(***************************************************************************)
C9_SelectIffOptions ==
    /\ Queried => (qType \in {"SingleSelect", "MultipleSelect"} <=> ~qOptions.isNull)
    /\ \A i \in 1..Len(fieldTypes) :
           fieldTypes[i] \in {"SingleSelect", "MultipleSelect"}
               <=> ~fieldOptions[i].isNull

C9_Witness ==
    /\ Rendered
    /\ fieldTypes[1] = "MultipleSelect"
    /\ fieldOptions[1] = Options(Statuses)

(***************************************************************************)
(* C10.  The table and the form derive the same category for every field   *)
(* of a list, dotted paths included.  Fails for every dotted path whose    *)
(* validator is not a SingleLine one: buildTable looks the field up in a   *)
(* schema whose only key is the whole path string.                         *)
(***************************************************************************)
C10_TableAndFormAgree ==
    (Rendered /\ tableTypes # <<>>) =>
        \A i \in 1..Len(fields) : tableTypes[i] = fieldTypes[i]

(***************************************************************************)
(* Vocabulary of the form properties.                                      *)
(***************************************************************************)
\* the form data passes the schema composed from the field list
FormDataPasses == safeParse(zodFromFields(fields), formData).ok

\* this step invokes the user's onSubmit
InvokesOnSubmit == pending.state # "called" /\ pending'.state = "called"

\* field i's own validator rejects the field's value in the form data
Rejected(i) == ~safeParse(fields[i].z, ValueAt(formData, Segs(i))).ok

\* the state right after a submit attempt that failed validation
FailedAttempt == step = "handleSubmit" /\ ~FormDataPasses

(***************************************************************************)
(* C11.  Submit gate: onSubmit is invoked only in a step whose form data   *)
(* passes the schema composed from the field list, and with that form      *)
(* data; a submit whose form data fails validation invokes no onSubmit,    *)
(* leaves the panel as open as it was and leaves the form data unchanged.  *)
(***************************************************************************)
C11_SubmitGate ==
    [][ /\ InvokesOnSubmit =>
              (step' = "handleSubmit" /\ FormDataPasses /\ pending'.data = formData)
        /\ (step' = "handleSubmit" /\ ~FormDataPasses) =>
              (~InvokesOnSubmit /\ pending' = pending /\ isOpen' = isOpen
                 /\ formData' = formData) ]_vars

C11_Witness ==
    /\ FailedAttempt
    /\ isOpen
    /\ formData # EmptyObject
    /\ pending = NoCall

(***************************************************************************)
(* C12.  After a submit attempt that fails validation, every declared      *)
(* field whose value its validator rejects, a field with a dotted path     *)
(* included, has a non-empty error message under the key the form          *)
(* displays the field's error from, and every field whose value is valid   *)
(* has none.  Fails for a dotted path: the message is recorded under the   *)
(* first segment of the issue's path, and displayed from the whole path.   *)
(***************************************************************************)
C12_FieldErrorsAfterFailedSubmit ==
    FailedAttempt =>
        \A i \in 1..Len(fields) :
            Rejected(i) <=> shouldShowError(errorOf(fields[i].field))

(***************************************************************************)
(* C13.  When onSubmit rejects, the panel stays as it is with the form     *)
(* data retained, the global error becomes getErrorMessage(error) if that  *)
(* function was given and the default message otherwise, and submitting    *)
(* is false again; when onSubmit resolves, the panel is closed, the form   *)
(* data is empty and submitting is false.  submitting is true exactly      *)
(* while an onSubmit call is pending.                                      *)
(***************************************************************************)
C13_SubmitOutcome ==
    /\ [](submitting <=> pending.state = "called")
    /\ [][ /\ step' = "rejected" =>
                 /\ isOpen' = isOpen
                 /\ formData' = formData
                 /\ ~submitting'
                 /\ IF props.getErrorMessage
                    THEN \E error \in Errors : globalError' = getErrorMessage(error)
                    ELSE globalError' = DefaultErrorMessage
           /\ step' = "resolved" =>
                 (~isOpen' /\ formData' = EmptyObject /\ ~submitting') ]_vars

C13_Witness ==
    /\ step = "rejected"
    /\ props.getErrorMessage
    /\ globalError = getErrorMessage("NetworkError")
    /\ isOpen
    /\ formData # EmptyObject

(***************************************************************************)
(* C14.  Optional fields are not enforced: after a submit attempt in       *)
(* which every field declared with .optional() is unfilled (its input      *)
(* shows nothing, never touched or emptied again) and every other field's  *)
(* value is accepted by its validator, the form data passed validation.    *)
(* Fails for an optional date that was picked and emptied again (the form  *)
(* data holds an invalid Date), and for an untouched optional field at a   *)
(* dotted path.                                                            *)
(***************************************************************************)
\* what the input of field i shows is empty
Unfilled(i) ==
    LET v == valueOf(fields[i].field)
    IN  \/ v = Str("")
        \/ fieldTypes[i] = "Date" /\ v = InvalidDate

C14_OptionalFieldsNotEnforced ==
    ( /\ step = "handleSubmit"
      /\ \A i \in 1..Len(fields) :
             IF fields[i].z.kind = "ZodOptional" THEN Unfilled(i) ELSE ~Rejected(i) )
        => FormDataPasses

(***************************************************************************)
(* C15, as stated.  UpdateForm invokes onSubmit with the id of the record  *)
(* of the most recent openEditModal call; if openEditModal was never       *)
(* called, a submit invokes no onSubmit and ends with the global error     *)
(* set.  Fails: a submit whose form data fails validation ends with the    *)
(* validation errors and without a global error.                           *)
(***************************************************************************)
UpdateFormCallsWithRecordId ==
    (props.form = "UpdateForm" /\ InvokesOnSubmit) =>
        (editRecord # Null /\ pending'.id = GetProp(editRecord, IdKey))

NeverOpenedSubmit ==
    props.form = "UpdateForm" /\ editRecord = Null /\ step' = "handleSubmit"

C15_NeverOpenedEndsWithGlobalError ==
    [][ /\ UpdateFormCallsWithRecordId
        /\ NeverOpenedSubmit => (~InvokesOnSubmit /\ globalError' # Null) ]_vars

(***************************************************************************)
(* C15, amended.  UpdateForm invokes onSubmit with the id of the record    *)
(* of the most recent openEditModal call; if openEditModal was never       *)
(* called, a submit invokes no onSubmit: it ends with the global error     *)
(* set when the form data passes validation, and with the validation       *)
(* errors and the global error unchanged when it does not.                 *)
(***************************************************************************)
C15_UpdateFormSubmit ==
    [][ /\ UpdateFormCallsWithRecordId
        /\ NeverOpenedSubmit =>
              /\ ~InvokesOnSubmit
              /\ pending' = pending
              /\ IF FormDataPasses
                 THEN globalError' = globalErrorOf(props.getErrorMessage, NoEditRecordError)
                 ELSE globalError' = globalError /\ validationErrors' # EmptyObject ]_vars

C15_Witness ==
    /\ props.form = "UpdateForm"
    /\ editRecord # Null
    /\ pending.state = "called"
    /\ pending.id = Str("2")

C15_WitnessNeverOpened ==
    /\ props.form = "UpdateForm"
    /\ editRecord = Null
    /\ step = "handleSubmit"
    /\ globalError # Null

(***************************************************************************)
(* Vocabulary of the table properties.                                     *)
(***************************************************************************)
IsSortedBy(sorting, field) == \E i \in 1..Len(sorting) : sorting[i].field = field

OthersOf(sorting, field) == SelectSeq(sorting, LAMBDA f : f.field # field)

AtMostOneEntryPerField(sorting) ==
    \A i, j \in 1..Len(sorting) : sorting[i].field = sorting[j].field => i = j

\* the rows that are selected now, by what was done to each row
SelectedNow(rowId) == history[rowId].selected

(***************************************************************************)
(* C16.  toggleSortingField(f) cycles f through not sorted, descending,    *)
(* ascending, not sorted: from any sortingFields without f, the first      *)
(* toggle appends f descending, the second makes it ascending in place,    *)
(* the third restores sortingFields; sortingFields always has at most one  *)
(* entry per field, and a toggle of f leaves the entries of the other      *)
(* fields, their directions and their order as they were.                  *)
(***************************************************************************)
C16_SortingCycle ==
    /\ AtMostOneEntryPerField(sortingFields)
    /\ \A f \in SortFields :
           LET once == toggleSortingFieldOf(sortingFields, f)
               twice == toggleSortingFieldOf(once, f)
               thrice == toggleSortingFieldOf(twice, f)
           IN  /\ OthersOf(once, f) = OthersOf(sortingFields, f)
               /\ AtMostOneEntryPerField(once)
               /\ ~IsSortedBy(sortingFields, f) =>
                      /\ once = Append(sortingFields, [field |-> f, direction |-> "desc"])
                      /\ twice = Append(sortingFields, [field |-> f, direction |-> "asc"])
                      /\ thrice = sortingFields

C16_Witness ==
    /\ step = "toggleSortingField"
    /\ sortingFields = << [field |-> "email", direction |-> "asc"],
                          [field |-> "name", direction |-> "desc"] >>

(***************************************************************************)
(* C17.  rowSelection is a record of the selected row ids: a row id is a   *)
(* key of rowSelection exactly when the row is selected now, so the        *)
(* number of keys is the number of selected rows.  Fails: a row that is    *)
(* unselected again stays a key, with the value false.                     *)
(***************************************************************************)
C17_KeysAreTheSelectedRows ==
    /\ \A rowId \in RowIds : HasProp(rowSelection, rowId) <=> SelectedNow(rowId)
    /\ Len(rowSelection.keys) = Cardinality({rowId \in RowIds : SelectedNow(rowId)})

(***************************************************************************)
(* C18, as stated.  useSelected(data) returns exactly the rows of data     *)
(* that are selected now, in the order of data; a row toggled an even      *)
(* number of times is not returned; selected ids absent from data          *)
(* contribute nothing.  Fails: a row selected through setRowSelection      *)
(* (the header checkbox) and toggled twice is returned.                    *)
(***************************************************************************)
ReturnsTheSelectedRowsOfData ==
    /\ useSelected(tableData) = SelectSeq(tableData, SelectedNow)
    /\ Range(useSelected(tableData)) \subseteq Range(tableData)

C18_EvenTogglesNotReturned ==
    /\ ReturnsTheSelectedRowsOfData
    /\ \A rowId \in RowIds :
           history[rowId].toggles = 0 => rowId \notin Range(useSelected(tableData))

(***************************************************************************)
(* C18, amended.  useSelected(data) returns exactly the rows of data that  *)
(* are selected now, in the order of data; a row whose selection was only  *)
(* ever changed by toggleRowSelection is returned exactly when it is in    *)
(* data and was toggled an odd number of times; selected ids absent from   *)
(* data contribute nothing.                                                *)
(***************************************************************************)
C18_SelectedRows ==
    /\ ReturnsTheSelectedRowsOfData
    /\ \A rowId \in RowIds :
           ~history[rowId].set =>
               (rowId \in Range(useSelected(tableData))
                   <=> (rowId \in Range(tableData) /\ history[rowId].toggles = 1))

C18_Witness ==
    /\ tableData = <<"r2">>
    /\ SelectedNow("r1")
    /\ SelectedNow("r2")
    /\ ~history["r2"].set
    /\ useSelected(tableData) = <<"r2">>

(***************************************************************************)
(* C19.  A click on handler h in row r calls the listener registered for   *)
(* h once, with r, and calls nothing when none is registered; a listener   *)
(* given to useHandler(h, l) is registered for h while its component is    *)
(* mounted, and no listener of an unmounted component is registered.       *)
(* Fails when two components use the same handler: the store keeps one     *)
(* listener per handler, and the cleanup of one component removes the      *)
(* listener of the other.                                                  *)
(***************************************************************************)
C19_HandlerDispatch ==
    /\ step = "onHandlerClick" =>
           LET listener == GetProp(listeners, invoked.handler)
           IN  IF listener = Undefined
               THEN invoked.calls = <<>>
               ELSE invoked.calls = <<[listener |-> listener, row |-> invoked.row]>>
    /\ \A c \in Components :
           mounted[c] # NoHook =>
               GetProp(listeners, mounted[c].handler) = mounted[c].listener
    /\ \A handler \in Handlers :
           GetProp(listeners, handler) # Undefined =>
               \E c \in Components :
                   mounted[c] = [handler |-> handler,
                                 listener |-> GetProp(listeners, handler)]

(***************************************************************************)
(* C20.  A click on an option of MultipleSelect emits one change event,    *)
(* whose value is the selection without the option if it was selected and  *)
(* the selection with the option appended at the end if it was not; the    *)
(* other selected options keep their membership and their order; and       *)
(* toggling the same option twice gives the same set of selected options.  *)
(* Selections hold no option twice: they start empty and change only       *)
(* through these events.                                                   *)
(***************************************************************************)
Without(selection, option) == SelectSeq(selection, LAMBDA o : o # option)

C20_MultipleSelectToggle ==
    /\ [](\A option \in Range(SelectOptions) :
              Range(handleToggleOptionOf(handleToggleOptionOf(selectValue, option), option))
                  = Range(selectValue))
    /\ [][ step' = "handleToggleOption" =>
              /\ Len(emitted') = 1
              /\ LET option == emitted'[1].option
                     value == emitted'[1].value
                 IN  /\ value = IF option \in Range(selectValue)
                                THEN Without(selectValue, option)
                                ELSE Append(selectValue, option)
                     /\ Without(value, option) = Without(selectValue, option)
                     /\ selectValue' = value ]_vars

C20_Witness ==
    /\ step = "handleToggleOption"
    /\ emitted = <<[option |-> "o1", value |-> <<"o3", "o2">>]>>
    /\ selectValue = <<"o3", "o2">>

WithoutId(record) == setFields(EmptyObject, record, 1)

C23_OpenEditModalLoadsOnlyTheRecord ==
    step = "openEditModal" =>
        /\ formData = WithoutId(editRecord)
        /\ validationErrors = EmptyObject
        /\ globalError = Null

(***************************************************************************)
(* C24.  A submission affects only the session that started it: when the   *)
(* panel was opened for another record while the onSubmit call was         *)
(* pending, the completion of the call neither closes the panel nor        *)
(* clears the form data.  Fails: the completion closes and clears          *)
(* whatever is open.                                                       *)
(***************************************************************************)
OpenedForAnotherRecord ==
    /\ pending.state = "called"
    /\ props.form = "UpdateForm"
    /\ GetProp(editRecord, IdKey) # pending.id

C24_CompletionLeavesLaterSession ==
    [][ (step' = "resolved" /\ OpenedForAnotherRecord) =>
            (isOpen' = isOpen /\ formData' = formData) ]_vars

(***************************************************************************)
(* C25.  Blur on a number field: when the field holds a typed string that  *)
(* parses to a number, after the blur the stored value is that number and  *)
(* the field has no validation error; when the string is empty the stored  *)
(* value is undefined.  Fails: the blur validates the string it read       *)
(* before the conversion.                                                  *)
(***************************************************************************)
IsNumberField(i) == fields[i].z.kind = "ZodNumber"

Typed(i) == GetProp(formData, fields[i].field)

C25_BlurOnNumberField ==
    [][ \A i \in 1..Len(fields) :
           (IsNumberField(i) /\ Typed(i).kind = "string" /\ handleFieldBlur(fields[i].field)) =>
               IF Typed(i) = Str("")
               THEN GetProp(formData', fields[i].field) = Undefined
               ELSE ~IsNaNText(Typed(i).opts[1]) =>
                        /\ GetProp(formData', fields[i].field) = Num(Typed(i).opts[1])
                        /\ ~shouldShowError(GetProp(validationErrors', fields[i].field)) ]_vars

(***************************************************************************)
(* C26.  Blur validation covers every declared field: on the blur of a     *)
(* field, also one with a dotted path, the field's current value is        *)
(* checked against the field's own validator; the field's error becomes    *)
(* the validator's first message when the value is rejected and is         *)
(* cleared when it is accepted.  Fails for a dotted path: the blur looks   *)
(* the path up as one key of the schema's shape and finds no validator.    *)
(***************************************************************************)
C26_BlurValidatesEveryField ==
    [][ \A i \in 1..Len(fields) :
           handleFieldBlur(fields[i].field) =>
               LET current == lodashGet(formData, fields[i].field)
                   errors == issuesOf(fields[i].z, current, <<>>)
                   error == GetProp(validationErrors', fields[i].field)
               IN  IF errors = <<>>
                   THEN ~shouldShowError(error)
                   ELSE error = Str(errors[1].message) ]_vars

(***************************************************************************)
(* Vocabulary of the properties of shown values.                           *)
(***************************************************************************)
\* the shape of a string: every digit written as "d"
ShapeOfText(chars) == [i \in 1..Len(chars) |-> IF chars[i] \in Digits THEN "d" ELSE chars[i]]

DayShape == <<"d", "d", "d", "d", "-", "d", "d", "-", "d", "d">>
TimeShape == <<"T", "d", "d", ":", "d", "d", ":", "d", "d">>
MillisShape == <<".", "d", "d", "d">>

\* YYYY-MM-DD, alone or with a time part: Thh:mm:ss, with or without
\* milliseconds, with or without a closing Z
DateShapes ==
    {DayShape}
    \cup {DayShape \o TimeShape \o m \o z : m \in {<<>>, MillisShape}, z \in {<<>>, <<"Z">>}}

IsDateString(v) ==
    /\ v.kind = "string"
    /\ \A c \in Range(Chars(v)) : c \notin {"d"}
    /\ ShapeOfText(Chars(v)) \in DateShapes

HoldsNonNullObject(v) ==
    \E e \in Range(v.sub) : e.kind \in {"Object", "Array", "Date", "File"}

(***************************************************************************)
(* C21.  inferTypeFromValue is total and decides in this order: Date for   *)
(* a Date instance or a string shaped YYYY-MM-DD with an optional time     *)
(* part; Undefined for undefined; Null for null; Checkbox for a boolean    *)
(* or the strings "true" and "false"; ObjectArray for a non-empty array    *)
(* holding at least one non-null object; MultipleSelect for every other    *)
(* array, the empty one included; SingleLine for everything else.  It      *)
(* never returns SingleSelect, File or MultipleFiles.                      *)
(***************************************************************************)
C21_InferTypeFromValue ==
    step = "inferTypeFromValue" =>
        /\ inferredType \in FIELD_TYPES \ {"SingleSelect", "File", "MultipleFiles"}
        /\ inferredType =
             CASE cellValue.kind = "Date" \/ IsDateString(cellValue) -> "Date"
               [] cellValue.kind = "undefined" -> "Undefined"
               [] cellValue.kind = "null" -> "Null"
               [] cellValue.kind = "boolean" \/ cellValue \in {TrueText, FalseText} -> "Checkbox"
               [] cellValue.kind = "Array" /\ HoldsNonNullObject(cellValue) -> "ObjectArray"
               [] cellValue.kind = "Array" /\ ~HoldsNonNullObject(cellValue) -> "MultipleSelect"
               [] OTHER -> "SingleLine"

C21_Witness ==
    /\ step = "inferTypeFromValue"
    /\ IsDateString(cellValue)
    /\ Len(Chars(cellValue)) > Len(DayShape)
    /\ inferredType = "Date"

(***************************************************************************)
(* C27.  The default cell renderer is total: for every category that       *)
(* buildTable assigns to a field from a schema and for every row value,    *)
(* renderField returns output and does not throw.  Fails: the categories   *)
(* File and MultipleFiles have no case in the renderer, and the            *)
(* MultipleSelect case throws for a value that is no array of strings.     *)
(***************************************************************************)
C27_RenderFieldIsTotal == step = "renderField" => ~rendered.threw

(***************************************************************************)
(* C28.  Every value that fileSchema() accepts, a File instance or a       *)
(* reference with a key, an upload_signature and an optional url, is       *)
(* shown by the file field of the form without an error.  Fails: FileItem  *)
(* throws for a reference without a url.                                   *)
(***************************************************************************)
C28_FileFieldShowsAcceptedValues ==
    (step = "FileInput" /\ safeParse(fileSchema, cellValue).ok) => ~rendered.threw

(***************************************************************************)
(* C29.  Listener registration survives unrelated unmounts: when two       *)
(* mounted components have registered listeners for the same handler and   *)
(* one of them unmounts, or registers again because its listener changed,  *)
(* the handler is still bound to a listener of a component that remains    *)
(* mounted.  Fails: the cleanup of the component that leaves removes the   *)
(* one listener the store keeps for the handler.                           *)
(***************************************************************************)
BothUse(handler) == \A c \in Components : mounted[c].handler = handler

C29_RegistrationSurvivesUnmount ==
    [][ \A handler \in Handlers :
           (/\ BothUse(handler)
            /\ \/ step' = "useHandlerUnmount"
               \/ step' = "useHandlerUpdate" /\ BothUse(handler)') =>
               \E c \in Components :
                   /\ mounted'[c].handler = handler
                   /\ GetProp(listeners', handler) = mounted'[c].listener ]_vars

(***************************************************************************)
(* C30.  zodFromFields drops no field: for every field list, also one in   *)
(* which two fields have the same path or one path is a proper prefix of   *)
(* another, a record whose value at the path of some field is rejected by  *)
(* that field's validator is rejected by the composed schema.  Fails: of   *)
(* two fields with the same path only the later one is in the schema.      *)
(***************************************************************************)
C30_EveryFieldIsEnforced ==
    parsed.done =>
        \A i \in 1..Len(fields) :
            ~safeParse(fields[i].z, ValueAt(parsed.data, Segs(i))).ok => ~parsed.ok

====
